---- MODULE Spec2Model ----
(***************************************************************************)
(* A model of botsmith's src/index.ts: the function registry and its       *)
(* dispatch (GptFunctionsConfig), the retry wrapper (retryOnOpenAiError)   *)
(* and the chat completion calls (getChatCompletion with its context       *)
(* window, getCompletionUsingChatModel).                                   *)
(*                                                                         *)
(* Strings the code builds by interpolation are sequences of their parts,  *)
(* so that "the message names X" is a membership test.  A JSON text is the *)
(* sequence of its tokens.  A promise is a record with a state             *)
(* ("pending", "fulfilled", "rejected").                                   *)
(***************************************************************************)
EXTENDS Integers, Sequences, FiniteSets, TLC

VARIABLES
    pc,             \* which operation runs and where it is suspended
    functions,      \* GptFunctionsConfig.functions: the registry, in order
    chatState,      \* dispatch's argument: [chatHistory |-> ...]
    steps,          \* what one dispatch call has executed so far, in order
    pendingCall,    \* the function and arguments of the do() being awaited
    doOutcome,      \* how the called do() ended, for this dispatch
    dispatched,     \* the promise dispatch returned
    retries,        \* retryOnOpenAiError: the loop's counter
    err,            \* retryOnOpenAiError: the last error caught
    calls,          \* retryOnOpenAiError: how each call of func ended, in order
    retried,        \* the promise retryOnOpenAiError returned
    chatCall,       \* getChatCompletion's arguments
    window,         \* getChatCompletion: startingMessageIndex and totalChars
    openaiRequest,  \* getChatCompletion: the request sent to the provider
    providerLog,    \* how each createChatCompletion call of this invocation ended
    response,       \* what the awaited createChatCompletion resolved to
    completion,     \* the promise getChatCompletion returned
    formatted,      \* what formatForGpt returned, and the names it was given
    listed,         \* the array getFunctions returned, as its caller holds it
    inflight        \* the dispatch calls running side by side, one record each

dispatchVars == <<functions, chatState, steps, pendingCall, doOutcome, dispatched>>

retryVars == <<retries, err, calls, retried>>

chatVars == <<chatCall, window, openaiRequest, providerLog, response, completion>>

sharedVars == <<formatted, listed, inflight>>

vars == <<pc, dispatchVars, retryVars, chatVars, sharedVars>>

----------------------------------------------------------------------------
(* Bounds of the model. *)

\* Longest registry.
MaxFunctions == 2

Range(s) == {s[i] : i \in 1..Len(s)}

SeqsUpTo(S, n) == UNION {[1..k -> S] : k \in 0..n}

----------------------------------------------------------------------------
(* Values. *)

\* Error objects and other thrown values: an Error has a message; anything
\* else thrown is a plain value with a JSON text.
Error(text) == [isError |-> TRUE, text |-> text]

NoError == [isError |-> FALSE, text |-> <<>>]

\* What a function body may throw or reject with: an Error, or a bare value.
Thrown == {Error(<<"boom">>), [isError |-> FALSE, text |-> <<"oops">>]}

\* JSON.stringify of a thrown bare (string) value: the value in quotes.
JSONStringifyValue(v) == <<"\"">> \o v.text \o <<"\"">>

\* What a function body may return.
ReturnValues == {"72F", "null"}

\* The TypeError a property read of undefined, or a call of undefined, raises.
TypeError == Error(<<"TypeError">>)

----------------------------------------------------------------------------
(* GptFunction. *)

\* Class names of the GptFunction subclasses (GptFunction.name is the
\* constructor's name).
ClassNames == {"FetchWeather", "Finish"}

\* Keys a parameter schema may require.
Keys == {"where", "when"}

\* The parameter schema each subclass passes to super(), reduced to the keys
\* it requires of an object.
SchemaOf(name) == IF name = "FetchWeather" THEN {"where"} ELSE {}

\* The description each subclass passes to super().
DescriptionOf(name) ==
    IF name = "FetchWeather" THEN "Fetch the weather" ELSE "End the conversation"

\* A constructed GptFunction.  The constructor never assigns
\* ajvValidateFunction, so it stays undefined unless the subclass installs a
\* compiled validator for its schema.
GptFunction ==
    {[name |-> n, description |-> DescriptionOf(n), parameters |-> SchemaOf(n),
      isNoOp |-> o, ajvValidateFunction |-> v] :
        n \in ClassNames, o \in BOOLEAN, v \in {"undefined", "compiled"}}

\* The JSON texts a function_call may carry as arguments, as token sequences;
\* <<>> is the empty string (or an absent arguments field).
ArgumentStrings ==
    { <<>>,
      <<"{", "}">>,
      <<"{", "where", "}">>,
      <<"{", "where", ",", "when", "}">>,
      <<"{", "where", ",">>,
      <<"null">> }

\* Whether a token sequence is the text of a JSON object: braces around keys
\* separated by commas.
IsObjectText(s) ==
    /\ Len(s) >= 2
    /\ s[1] = "{"
    /\ s[Len(s)] = "}"
    /\ \/ Len(s) = 2
       \/ /\ Len(s) % 2 = 1
          /\ \A i \in 2..(Len(s) - 1) :
                IF i % 2 = 0 THEN s[i] \in Keys ELSE s[i] = ","

\* JSON.parse: the parsed value, or a SyntaxError.
JSONParse(s) ==
    IF s = <<"null">>
    THEN [ok |-> TRUE, isObject |-> FALSE, keys |-> {}]
    ELSE IF IsObjectText(s)
    THEN [ok |-> TRUE, isObject |-> TRUE,
          keys |-> {s[i] : i \in {j \in 2..(Len(s) - 1) : j % 2 = 0}}]
    ELSE [ok |-> FALSE, isObject |-> FALSE, keys |-> {}]

\* A compiled validator: the arguments are an object with the required keys.
AjvValidate(parameters, args) == args.isObject /\ parameters \subseteq args.keys

\* GptFunction.validate: calls ajvValidateFunction (a TypeError when it is
\* undefined); returns a FunctionCallInvalid object when the arguments are
\* invalid and nothing (undefined) when they are valid.
Validate(func, args) ==
    IF func.ajvValidateFunction = "undefined"
    THEN [threw |-> TRUE, returned |-> "nothing"]
    ELSE IF ~AjvValidate(func.parameters, args)
    THEN [threw |-> FALSE, returned |-> "object"]
    ELSE [threw |-> FALSE, returned |-> "undefined"]

----------------------------------------------------------------------------
(* DispatchResult. *)

FunctionCallInvalid(errorMessage) ==
    [type |-> "FunctionCallInvalid", errorMessage |-> errorMessage,
     result |-> "none", error |-> NoError]

FunctionSucceeded(result) ==
    [type |-> "FunctionSucceeded", errorMessage |-> <<>>,
     result |-> result, error |-> NoError]

FunctionThrew(error) ==
    [type |-> "FunctionThrew", errorMessage |-> <<>>,
     result |-> "none", error |-> error]

NoResult == [type |-> "none", errorMessage |-> <<>>, result |-> "none", error |-> NoError]

\* Promises.
Pending == [state |-> "pending", value |-> NoResult, reason |-> NoError]

Fulfilled(v) == [state |-> "fulfilled", value |-> v, reason |-> NoError]

Rejected(e) == [state |-> "rejected", value |-> NoResult, reason |-> e]

NotCalled == [state |-> "none", value |-> NoResult, reason |-> NoError]

----------------------------------------------------------------------------
(* Messages of a chat history, as dispatch reads them. *)

NoFunctionCall == [present |-> FALSE, name |-> "", arguments |-> <<>>]

FunctionCalls ==
    {NoFunctionCall} \cup
    [present : {TRUE}, name : ClassNames \cup {"Unknown"}, arguments : ArgumentStrings]

\* A user message before the assistant's.
UserMessage == [role |-> "user", function_call |-> NoFunctionCall]

AssistantMessages == [role : {"assistant"}, function_call : FunctionCalls]

\* The chat histories dispatch is called with: empty, or ending in an
\* assistant message.
DispatchHistories ==
    {<<>>} \cup {<<m>> : m \in AssistantMessages}
           \cup {<<UserMessage, m>> : m \in AssistantMessages}

\* Variant of the lookup that takes the last function registered under the
\* name.
FindLast(fs, functionName) ==
    LET hits == {i \in 1..Len(fs) : fs[i].name = functionName}
    IN  IF hits = {} THEN [found |-> FALSE, index |-> 0]
        ELSE [found |-> TRUE, index |-> CHOOSE i \in hits : \A j \in hits : i >= j]

\* Array.prototype.find: the first function with the name, or undefined.
Find(fs, functionName) ==
    LET hits == {i \in 1..Len(fs) : fs[i].name = functionName}
    IN  IF hits = {} THEN [found |-> FALSE, index |-> 0]
        ELSE [found |-> TRUE, index |-> CHOOSE i \in hits : \A j \in hits : i <= j]

NoCall == [index |-> 0, args |-> JSONParse(<<>>)]

\* error instanceof Error ? error : new Error(JSON.stringify(error))
AsError(e) == IF e.isError THEN e ELSE Error(JSONStringifyValue(e))

----------------------------------------------------------------------------
(* GptFunctionsConfig.dispatch, up to its first suspension.  Each stage     *)
(* yields the steps executed, the promise dispatch has so far, and the      *)
(* pending do() call if one was made.                                       *)

\* assistantMessage.function_call.arguments || "{}"
ArgumentsString(call) ==
    IF call.arguments = <<>> THEN <<"{", "}">> ELSE call.arguments

Ended(st, promise) == [steps |-> st, promise |-> promise, call |-> NoCall]

\* Variant of DispatchExecute without the isNoOp test: every function's body
\* is called.
DispatchExecuteAlways(fs, index, args, st) ==
    [steps |-> Append(st, "do"), promise |-> Pending,
     call |-> [index |-> index, args |-> args]]

\* The no-op short circuit, else the call of the function body.
DispatchExecute(fs, index, args, st) ==
    IF fs[index].isNoOp
    THEN Ended(st, Fulfilled(FunctionSucceeded("null")))
    ELSE [steps |-> Append(st, "do"), promise |-> Pending,
          call |-> [index |-> index, args |-> args]]

\* Variant of DispatchValidate that calls validate and drops what it returns.
DispatchValidateIgnored(fs, functionName, index, args, st) ==
    LET v == Validate(fs[index], args)
        here == Append(st, "validate")
    IN  IF v.threw
        THEN Ended(here, Rejected(TypeError))
        ELSE DispatchExecute(fs, index, args, here)

\* func.validate(args), and the FunctionCallInvalid its complaint becomes.
DispatchValidate(fs, functionName, index, args, st) ==
    LET v == Validate(fs[index], args)
        here == Append(st, "validate")
    IN  IF v.threw
        THEN Ended(here, Rejected(TypeError))
        ELSE IF v.returned # "undefined"
        THEN Ended(here, Fulfilled(FunctionCallInvalid(
                <<"invalid arguments for function ", functionName, ": ",
                  "[object Object]">>)))
        ELSE DispatchExecute(fs, index, args, here)

\* Variant of DispatchParse whose catch does not return: validation goes on
\* with whatever was parsed.
DispatchParseUnchecked(fs, functionName, index, argumentsString, st) ==
    DispatchValidate(fs, functionName, index, JSONParse(argumentsString),
                     Append(st, "parse"))

\* JSON.parse(argumentsString) in its try/catch.
DispatchParse(fs, functionName, index, argumentsString, st) ==
    LET parsed == JSONParse(argumentsString)
        here == Append(st, "parse")
    IN  IF ~parsed.ok
        THEN Ended(here, Fulfilled(FunctionCallInvalid(
                <<"invalid JSON string for arguments: ">> \o argumentsString)))
        ELSE DispatchValidate(fs, functionName, index, parsed, here)

\* Variant of DispatchPrefix that lets a name the registry does not know
\* pass as a call that has nothing to do.
DispatchPrefixUnknownPasses(fs, cs) ==
    LET chatHistory == cs.chatHistory
    IN  IF Len(chatHistory) = 0
        THEN Ended(<<>>, Rejected(TypeError))
        ELSE IF ~chatHistory[Len(chatHistory)].function_call.present
        THEN Ended(<<>>, Rejected(TypeError))
        ELSE
            LET call == chatHistory[Len(chatHistory)].function_call
                functionName == call.name
                argumentsString == ArgumentsString(call)
                hit == Find(fs, functionName)
            IN  IF ~hit.found
                THEN Ended(<<"find">>, Fulfilled(FunctionSucceeded("null")))
                ELSE DispatchParse(fs, functionName, hit.index,
                                   argumentsString, <<"find">>)

\* Variant of DispatchPrefix that parses the arguments before it looks the
\* name up.
DispatchPrefixParseFirst(fs, cs) ==
    LET chatHistory == cs.chatHistory
    IN  IF Len(chatHistory) = 0
        THEN Ended(<<>>, Rejected(TypeError))
        ELSE IF ~chatHistory[Len(chatHistory)].function_call.present
        THEN Ended(<<>>, Rejected(TypeError))
        ELSE
            LET call == chatHistory[Len(chatHistory)].function_call
                functionName == call.name
                argumentsString == ArgumentsString(call)
                parsed == JSONParse(argumentsString)
                hit == Find(fs, functionName)
            IN  IF ~parsed.ok
                THEN Ended(<<"parse">>, Fulfilled(FunctionCallInvalid(
                        <<"invalid JSON string for arguments: ">> \o argumentsString)))
                ELSE IF ~hit.found
                THEN Ended(<<"parse", "find">>, Fulfilled(FunctionCallInvalid(
                        <<"unknown function ", functionName>>)))
                ELSE DispatchValidate(fs, functionName, hit.index, parsed,
                                      <<"parse", "find">>)

\* The last message's function_call, and the lookup by name.
DispatchPrefix(fs, cs) ==
    LET chatHistory == cs.chatHistory
    IN  IF Len(chatHistory) = 0
        THEN Ended(<<>>, Rejected(TypeError))
        ELSE IF ~chatHistory[Len(chatHistory)].function_call.present
        THEN Ended(<<>>, Rejected(TypeError))
        ELSE
            LET call == chatHistory[Len(chatHistory)].function_call
                functionName == call.name
                argumentsString == ArgumentsString(call)
                hit == Find(fs, functionName)
            IN  IF ~hit.found
                THEN Ended(<<"find">>, Fulfilled(FunctionCallInvalid(
                        <<"unknown function ", functionName>>)))
                ELSE DispatchParse(fs, functionName, hit.index,
                                   argumentsString, <<"find">>)

----------------------------------------------------------------------------
(* retryOnOpenAiError. *)

MAX_RETRIES == 5

\* What the wrapped function may throw or reject with.
CallErrors == {Error(<<"rate limited">>), Error(<<"timeout">>)}

\* What the wrapped function may return.
CallResults == {"completion"}

\* err.message of the last caught error.
ErrorMessage(e) == IF e.isError THEN e.text ELSE <<"undefined">>

\* The error thrown once the loop is over.
GivingUp(n, e) ==
    Error(<<"Giving up after ", ToString(n), ".\nfunc=", "func", "\nargs=",
            "args", "\nerror=">> \o ErrorMessage(e))

\* let retries = 0; let err = new Error(); the loop is entered.
RetryOnOpenAiError ==
    /\ pc = "idle"
    /\ pc' = "retry_loop"
    /\ retries' = 0
    /\ err' = Error(<<>>)
    /\ calls' = <<>>
    /\ retried' = Pending
    /\ UNCHANGED <<dispatchVars, chatVars, sharedVars>>

\* func(...args) throws synchronously: the catch counts it and the loop goes on.
FuncThrows(e) ==
    /\ pc = "retry_loop"
    /\ retries < MAX_RETRIES
    /\ calls' = Append(calls, "threw")
    /\ err' = e
    /\ retries' = retries + 1
    /\ UNCHANGED <<pc, retried, dispatchVars, chatVars, sharedVars>>

\* func(...args) returns a plain value: return func(...args) resolves to it.
FuncReturns(v) ==
    /\ pc = "retry_loop"
    /\ retries < MAX_RETRIES
    /\ calls' = Append(calls, "returned")
    /\ retried' = Fulfilled(v)
    /\ pc' = "retry_done"
    /\ UNCHANGED <<retries, err, dispatchVars, chatVars, sharedVars>>

\* func(...args) returns a promise: return func(...args) hands it to the
\* caller without awaiting it, so the try block is left.
FuncReturnsPromise ==
    /\ pc = "retry_loop"
    /\ retries < MAX_RETRIES
    /\ calls' = Append(calls, "promise")
    /\ pc' = "retry_await"
    /\ UNCHANGED <<retries, err, retried, dispatchVars, chatVars, sharedVars>>

\* The returned promise resolves.
FuncPromiseResolves(v) ==
    /\ pc = "retry_await"
    /\ calls' = [calls EXCEPT ![Len(calls)] = "resolved"]
    /\ retried' = Fulfilled(v)
    /\ pc' = "retry_done"
    /\ UNCHANGED <<retries, err, dispatchVars, chatVars, sharedVars>>

\* The returned promise rejects: outside the try block, nothing catches it.
FuncPromiseRejects(e) ==
    /\ pc = "retry_await"
    /\ calls' = [calls EXCEPT ![Len(calls)] = "rejected"]
    /\ retried' = Rejected(e)
    /\ pc' = "retry_done"
    /\ UNCHANGED <<retries, err, dispatchVars, chatVars, sharedVars>>

\* The loop condition fails: throw new Error(errorMessage).
GiveUp ==
    /\ pc = "retry_loop"
    /\ ~(retries < MAX_RETRIES)
    /\ retried' = Rejected(GivingUp(retries, err))
    /\ pc' = "retry_done"
    /\ UNCHANGED <<retries, err, calls, dispatchVars, chatVars, sharedVars>>

----------------------------------------------------------------------------
(* getChatCompletion. *)

\* Longest history passed to getChatCompletion.
MaxHistory == 3

Models == {"gpt-4", "gpt-3.5-turbo"}

\* Variant of approximateMaxChars whose switch has a default limit instead of
\* the throw.
ApproximateMaxCharsDefault(model) ==
    IF model = "gpt-4"
    THEN [ok |-> TRUE, chars |-> 8000 * 4]
    ELSE [ok |-> TRUE, chars |-> 4000 * 4]

\* The switch over the model: a character limit, or Error("unknown model").
ApproximateMaxChars(model) ==
    IF model = "gpt-4"
    THEN [ok |-> TRUE, chars |-> 8000 * 4]
    ELSE [ok |-> FALSE, chars |-> 0]

\* n * FRACTION_OF_MAX_CHARS_TO_USE, the fraction being 0.8.
FractionOfMaxChars(n) == (n * 8) \div 10

\* A message of the history: its role and the length of its content (a text
\* without characters JSON escapes).
ContentLengths == {1468, 12000, 26000}

ChatMessages == [role : {"user", "assistant"}, content : ContentLengths]

\* Lengths of the system message's content.
SystemLengths == {14, 26000}

\* The functions argument: null, or a list of descriptors, each given by the
\* length of its JSON text.
FunctionLists ==
    {[isNull |-> TRUE, descriptors |-> <<>>],
     [isNull |-> FALSE, descriptors |-> <<150>>]}

RECURSIVE Sum(_)
Sum(s) == IF s = <<>> THEN 0 ELSE s[1] + Sum(Tail(s))

\* JSON.stringify(message).length for {"role":"...","content":"..."}.
JSONLength(m) == 24 + Len(m.role) + m.content

\* JSON.stringify(functions).length: "null", or the bracketed, comma-separated
\* descriptors.
FunctionsJSONLength(f) ==
    IF f.isNull THEN 4
    ELSE 2 + Sum(f.descriptors)
           + (IF Len(f.descriptors) > 1 THEN Len(f.descriptors) - 1 ELSE 0)

SystemMessage(n) == [role |-> "system", content |-> n]

BaseChars(systemLength, f) ==
    JSONLength(SystemMessage(systemLength)) + FunctionsJSONLength(f)

\* Variant of Walk that admits a message bringing the total to exactly
\* maxChars (<= for <).
RECURSIVE WalkInclusive(_, _, _, _)
WalkInclusive(messages, startingMessageIndex, totalChars, maxChars) ==
    IF /\ startingMessageIndex > 1
       /\ totalChars + JSONLength(messages[startingMessageIndex - 1]) <= maxChars
    THEN WalkInclusive(messages, startingMessageIndex - 1,
              totalChars + JSONLength(messages[startingMessageIndex - 1]),
              maxChars)
    ELSE [startingMessageIndex |-> startingMessageIndex, totalChars |-> totalChars]

\* Variant of Walk with the comparison turned around (> for <).
RECURSIVE WalkInverted(_, _, _, _)
WalkInverted(messages, startingMessageIndex, totalChars, maxChars) ==
    IF /\ startingMessageIndex > 1
       /\ totalChars + JSONLength(messages[startingMessageIndex - 1]) > maxChars
    THEN WalkInverted(messages, startingMessageIndex - 1,
              totalChars + JSONLength(messages[startingMessageIndex - 1]),
              maxChars)
    ELSE [startingMessageIndex |-> startingMessageIndex, totalChars |-> totalChars]

\* Variant of Walk with an if for the while: at most one older message is
\* taken in.
WalkOnce(messages, startingMessageIndex, totalChars, maxChars) ==
    IF /\ startingMessageIndex > 1
       /\ totalChars + JSONLength(messages[startingMessageIndex - 1]) < maxChars
    THEN [startingMessageIndex |-> startingMessageIndex - 1,
          totalChars |-> totalChars + JSONLength(messages[startingMessageIndex - 1])]
    ELSE [startingMessageIndex |-> startingMessageIndex, totalChars |-> totalChars]

\* The while loop that walks from the last message toward the first.
\* Indices are 1-based here: the code's startingMessageIndex is this one
\* minus 1, and its test startingMessageIndex > 0 reads > 1.
RECURSIVE Walk(_, _, _, _)
Walk(messages, startingMessageIndex, totalChars, maxChars) ==
    IF /\ startingMessageIndex > 1
       /\ totalChars + JSONLength(messages[startingMessageIndex - 1]) < maxChars
    THEN Walk(messages, startingMessageIndex - 1,
              totalChars + JSONLength(messages[startingMessageIndex - 1]),
              maxChars)
    ELSE [startingMessageIndex |-> startingMessageIndex, totalChars |-> totalChars]

\* Variant of SelectWindow that holds the last message to the budget too: it
\* is left out when it does not fit.
SelectWindowWithinBudget(messages, baseChars, maxChars) ==
    IF baseChars + JSONLength(messages[Len(messages)]) < maxChars
    THEN Walk(messages, Len(messages),
              baseChars + JSONLength(messages[Len(messages)]), maxChars)
    ELSE [startingMessageIndex |-> Len(messages) + 1, totalChars |-> baseChars]

\* startingMessageIndex and totalChars as the loop leaves them, for a
\* non-empty history.
SelectWindow(messages, baseChars, maxChars) ==
    Walk(messages, Len(messages),
         baseChars + JSONLength(messages[Len(messages)]), maxChars)

\* [systemMessage, ...messages.slice(startingMessageIndex)]
PromptMessages(systemMessage, messages, startingMessageIndex) ==
    <<systemMessage>> \o SubSeq(messages, startingMessageIndex, Len(messages))

NoFunctions == [isNull |-> TRUE, descriptors |-> <<>>]

NoRequest ==
    [model |-> "", temperature |-> 0, messages |-> <<>>,
     hasFunctions |-> FALSE, functions |-> NoFunctions]

\* openaiRequest, with functions set only when the argument is not null.
OpenAIRequest(call, promptMessages) ==
    [model |-> call.model, temperature |-> call.temperature,
     messages |-> promptMessages,
     hasFunctions |-> ~call.functions.isNull,
     functions |-> IF call.functions.isNull THEN NoFunctions ELSE call.functions]

\* JSON.stringify(openaiRequest), in tokens.
JSONStringifyRequest(req) ==
    <<"{model:", req.model, ",temperature:", ToString(req.temperature),
      ",messages:", ToString(Len(req.messages))>>
    \o (IF req.hasFunctions
        THEN <<",functions:", ToString(Len(req.functions.descriptors))>>
        ELSE <<>>)
    \o <<"}">>

\* What createChatCompletion may fail with: an Error, an axios error with the
\* provider's response, an object without a message.
ProviderErrors ==
    {[hasMessage |-> TRUE, message |-> "socket hang up",
      isAxiosError |-> FALSE, hasResponse |-> FALSE, responseError |-> ""],
     [hasMessage |-> TRUE, message |-> "Request failed with status code 429",
      isAxiosError |-> TRUE, hasResponse |-> TRUE, responseError |-> "rate_limit"],
     [hasMessage |-> FALSE, message |-> "",
      isAxiosError |-> FALSE, hasResponse |-> FALSE, responseError |-> ""]}

\* extendAndThrowOpenAIError: the Error it throws.
ExtendOpenAIError(error, req) ==
    Error(<<"error calling OpenAI: ",
            IF error.hasMessage THEN error.message ELSE "unknown error">>
          \o (IF error.isAxiosError /\ error.hasResponse
              THEN <<": ", error.responseError>> ELSE <<>>)
          \o <<"\nHere was the request:\n">> \o JSONStringifyRequest(req))

\* The content and function_call of a response message.
NoContent == [present |-> FALSE, text |-> ""]

Contents == {NoContent, [present |-> TRUE, text |-> ""], [present |-> TRUE, text |-> "4"]}

ResponseFunctionCalls ==
    {NoFunctionCall,
     [present |-> TRUE, name |-> "FetchWeather", arguments |-> <<"{", "where", "}">>]}

ResponseMessages ==
    [role : {"assistant"}, content : Contents, function_call : ResponseFunctionCalls]

\* What createChatCompletion may resolve to: nothing, the SDK's AxiosResponse
\* (choices under data), or an object with choices at the top.
ProviderResponses ==
    {[present |-> FALSE, shape |-> "none", message |-> m] :
        m \in {[role |-> "assistant", content |-> NoContent,
               function_call |-> NoFunctionCall]}}
    \cup {[present |-> TRUE, shape |-> "axios", message |-> m] :
        m \in {[role |-> "assistant", content |-> [present |-> TRUE, text |-> "4"],
               function_call |-> NoFunctionCall]}}
    \cup [present : {TRUE}, shape : {"flat"}, message : ResponseMessages]

\* let response; before the await has assigned it.
NoResponse ==
    [present |-> FALSE, shape |-> "unset",
     message |-> [role |-> "assistant", content |-> NoContent,
                  function_call |-> NoFunctionCall]]

\* Variant of validateCreateChatCompletionResponse without the truthiness
\* test.
ValidateResponseUnchecked(r) == [ok |-> TRUE, responseData |-> r]

\* validateCreateChatCompletionResponse: the response itself when truthy.
ValidateCreateChatCompletionResponse(r) ==
    IF r.present
    THEN [ok |-> TRUE, responseData |-> r]
    ELSE [ok |-> FALSE, responseData |-> r]

\* The message getChatCompletion returns: content || "".
ResponseMessage(m) ==
    [role |-> m.role,
     content |-> IF m.content.present THEN m.content.text ELSE "",
     function_call |-> m.function_call]

NoChatCall ==
    [messages |-> <<>>, systemMessageContent |-> 0, model |-> "",
     temperature |-> 0, functions |-> NoFunctions]

ChatCalls ==
    [messages : SeqsUpTo(ChatMessages, MaxHistory),
     systemMessageContent : SystemLengths, model : Models,
     temperature : {0}, functions : FunctionLists]

NoWindow == [startingMessageIndex |-> 0, totalChars |-> 0]

\* Variant of GetChatCompletion that guards the empty history: the window is
\* empty and the system message is sent alone.
GetChatCompletionSystemOnly(call) ==
    /\ pc = "idle"
    /\ chatCall' = call
    /\ LET limit == ApproximateMaxChars(call.model)
           maxChars == FractionOfMaxChars(limit.chars)
           baseChars == BaseChars(call.systemMessageContent, call.functions)
       IN  IF ~limit.ok
           THEN /\ completion' = Rejected(Error(<<"unknown model: ", call.model>>))
                /\ pc' = "chat_done"
                /\ UNCHANGED <<window, openaiRequest, providerLog>>
           ELSE LET w == IF Len(call.messages) = 0
                         THEN [startingMessageIndex |-> 1, totalChars |-> baseChars]
                         ELSE SelectWindow(call.messages, baseChars, maxChars)
                IN  /\ window' = w
                    /\ openaiRequest' =
                          OpenAIRequest(call,
                              PromptMessages(SystemMessage(call.systemMessageContent),
                                             call.messages, w.startingMessageIndex))
                    /\ providerLog' = Append(providerLog, "pending")
                    /\ completion' = Pending
                    /\ pc' = "chat_await"
    /\ UNCHANGED <<response, dispatchVars, retryVars, sharedVars>>

\* getChatCompletion up to the await of createChatCompletion.
GetChatCompletion(call) ==
    /\ pc = "idle"
    /\ chatCall' = call
    /\ LET limit == ApproximateMaxChars(call.model)
           maxChars == FractionOfMaxChars(limit.chars)
           baseChars == BaseChars(call.systemMessageContent, call.functions)
       IN  IF ~limit.ok
           THEN /\ completion' = Rejected(Error(<<"unknown model: ", call.model>>))
                /\ pc' = "chat_done"
                /\ UNCHANGED <<window, openaiRequest, providerLog>>
           ELSE IF Len(call.messages) = 0
           THEN /\ completion' = Rejected(TypeError)
                /\ pc' = "chat_done"
                /\ UNCHANGED <<window, openaiRequest, providerLog>>
           ELSE LET w == SelectWindow(call.messages, baseChars, maxChars)
                IN  /\ window' = w
                    /\ openaiRequest' =
                          OpenAIRequest(call,
                              PromptMessages(SystemMessage(call.systemMessageContent),
                                             call.messages, w.startingMessageIndex))
                    /\ providerLog' = Append(providerLog, "pending")
                    /\ completion' = Pending
                    /\ pc' = "chat_await"
    /\ UNCHANGED <<response, dispatchVars, retryVars, sharedVars>>

\* Variant of ProviderFails that sends the request again, up to MAX_RETRIES
\* calls, before it gives up.
ProviderFailsRetried(error) ==
    /\ pc = "chat_await"
    /\ IF Len(providerLog) < MAX_RETRIES
       THEN /\ providerLog' = Append([providerLog EXCEPT ![Len(providerLog)] = "failed"],
                                     "pending")
            /\ UNCHANGED <<pc, completion>>
       ELSE /\ providerLog' = [providerLog EXCEPT ![Len(providerLog)] = "failed"]
            /\ completion' = Rejected(ExtendOpenAIError(error, openaiRequest))
            /\ pc' = "chat_done"
    /\ UNCHANGED <<chatCall, window, openaiRequest, response, dispatchVars, retryVars, sharedVars>>

\* createChatCompletion rejects: the catch rethrows through
\* extendAndThrowOpenAIError.
ProviderFails(error) ==
    /\ pc = "chat_await"
    /\ providerLog' = [providerLog EXCEPT ![Len(providerLog)] = "failed"]
    /\ completion' = Rejected(ExtendOpenAIError(error, openaiRequest))
    /\ pc' = "chat_done"
    /\ UNCHANGED <<chatCall, window, openaiRequest, response, dispatchVars, retryVars, sharedVars>>

\* createChatCompletion resolves: the response is validated and the first
\* choice's message returned.  responseData is the response itself, so
\* responseData.choices is undefined on an AxiosResponse.
ProviderResponds(r) ==
    /\ pc = "chat_await"
    /\ response' = r
    /\ LET v == ValidateCreateChatCompletionResponse(r)
       IN  completion' =
              IF ~v.ok
              THEN Rejected(Error(<<"OpenAI response data validation error">>))
              ELSE IF v.responseData.shape # "flat"
              THEN Rejected(TypeError)
              ELSE Fulfilled(ResponseMessage(v.responseData.message))
    /\ providerLog' = [providerLog EXCEPT ![Len(providerLog)] = "responded"]
    /\ pc' = "chat_done"
    /\ UNCHANGED <<chatCall, window, openaiRequest, dispatchVars, retryVars, sharedVars>>

----------------------------------------------------------------------------
(* getCompletionUsingChatModel.  Its locals take the variables of the chat  *)
(* call: chatCall holds the prompt as a one-message history, openaiRequest   *)
(* the request, response what the provider resolved to.                     *)

\* The arguments: systemMessage, prompt, model, temperature.
CompletionCalls ==
    [messages : {<<[role |-> "user", content |-> n]>> : n \in ContentLengths},
     systemMessageContent : SystemLengths, model : Models,
     temperature : {0}, functions : {NoFunctions}]

\* The message getCompletionUsingChatModel returns.
CompletionMessage(m) ==
    [role |-> "assistant",
     content |-> IF m.content.present THEN m.content.text ELSE ""]

\* Variant of GetCompletionUsingChatModel that runs getChatCompletion's
\* steps before the provider call: the model's budget and the window.
GetCompletionWindowed(call) ==
    /\ pc = "idle"
    /\ chatCall' = call
    /\ LET limit == ApproximateMaxChars(call.model)
           w == SelectWindow(call.messages,
                             BaseChars(call.systemMessageContent, call.functions),
                             FractionOfMaxChars(limit.chars))
       IN  IF ~limit.ok
           THEN /\ completion' = Rejected(Error(<<"unknown model: ", call.model>>))
                /\ pc' = "completion_done"
                /\ UNCHANGED <<openaiRequest, providerLog>>
           ELSE /\ openaiRequest' =
                      OpenAIRequest(call,
                          PromptMessages(SystemMessage(call.systemMessageContent),
                                         call.messages, w.startingMessageIndex))
                /\ providerLog' = Append(providerLog, "pending")
                /\ completion' = Pending
                /\ pc' = "completion_await"
    /\ UNCHANGED <<window, response, dispatchVars, retryVars, sharedVars>>

\* getCompletionUsingChatModel up to the await of createChatCompletion: the
\* two messages and the request are built and sent as they are.
GetCompletionUsingChatModel(call) ==
    /\ pc = "idle"
    /\ chatCall' = call
    /\ openaiRequest' =
          [model |-> call.model, temperature |-> call.temperature,
           messages |-> <<SystemMessage(call.systemMessageContent)>> \o call.messages,
           hasFunctions |-> FALSE, functions |-> NoFunctions]
    /\ providerLog' = Append(providerLog, "pending")
    /\ completion' = Pending
    /\ pc' = "completion_await"
    /\ UNCHANGED <<window, response, dispatchVars, retryVars, sharedVars>>

\* createChatCompletion rejects: the catch rethrows through
\* extendAndThrowOpenAIError.
CompletionProviderFails(error) ==
    /\ pc = "completion_await"
    /\ providerLog' = [providerLog EXCEPT ![Len(providerLog)] = "failed"]
    /\ completion' = Rejected(ExtendOpenAIError(error, openaiRequest))
    /\ pc' = "completion_done"
    /\ UNCHANGED <<chatCall, window, openaiRequest, response, dispatchVars, retryVars, sharedVars>>

\* createChatCompletion resolves: the response is validated and the first
\* choice's content returned in an assistant message.
CompletionProviderResponds(r) ==
    /\ pc = "completion_await"
    /\ response' = r
    /\ LET v == ValidateCreateChatCompletionResponse(r)
       IN  completion' =
              IF ~v.ok
              THEN Rejected(Error(<<"OpenAI response data validation error">>))
              ELSE IF v.responseData.shape # "flat"
              THEN Rejected(TypeError)
              ELSE Fulfilled(CompletionMessage(v.responseData.message))
    /\ providerLog' = [providerLog EXCEPT ![Len(providerLog)] = "responded"]
    /\ pc' = "completion_done"
    /\ UNCHANGED <<chatCall, window, openaiRequest, dispatchVars, retryVars, sharedVars>>

----------------------------------------------------------------------------

(* Actions of the registry. *)

NoChatState == [chatHistory |-> <<>>]

\* How a do() call ended: it threw, or its promise rejected or resolved.
NoOutcome == [kind |-> "none", error |-> NoError, value |-> "none"]

DoThrew(e) == [kind |-> "threw", error |-> e, value |-> "none"]

DoRejected(e) == [kind |-> "rejected", error |-> e, value |-> "none"]

DoResolved(v) == [kind |-> "resolved", error |-> NoError, value |-> v]

\* new GptFunctionsConfig(functions)
Construct(fs) ==
    /\ pc = "idle"
    /\ pc' = "registry"
    /\ functions' = fs
    /\ UNCHANGED <<chatState, steps, pendingCall, doOutcome, dispatched, retryVars, chatVars, sharedVars>>

\* dispatch(chatState), run to its return or to the await of do().  A body
\* that throws synchronously is caught on the spot.
Dispatch(cs) ==
    /\ pc = "registry"
    /\ chatState' = cs
    /\ LET r == DispatchPrefix(functions, cs)
       IN  /\ steps' = r.steps
           /\ IF r.promise.state # "pending"
              THEN /\ dispatched' = r.promise
                   /\ pendingCall' = NoCall
                   /\ doOutcome' = NoOutcome
                   /\ pc' = "dispatch_done"
              ELSE \/ /\ pendingCall' = r.call
                      /\ dispatched' = Pending
                      /\ doOutcome' = NoOutcome
                      /\ pc' = "dispatch_await"
                   \/ \E e \in Thrown :
                      /\ pendingCall' = NoCall
                      /\ doOutcome' = DoThrew(e)
                      /\ dispatched' = Fulfilled(FunctionThrew(AsError(e)))
                      /\ pc' = "dispatch_done"
    /\ UNCHANGED <<functions, retryVars, chatVars, sharedVars>>

\* The awaited do() resolves: dispatch returns FunctionSucceeded.
DoResolves(result) ==
    /\ pc = "dispatch_await"
    /\ dispatched' = Fulfilled(FunctionSucceeded(result))
    /\ doOutcome' = DoResolved(result)
    /\ pendingCall' = NoCall
    /\ pc' = "dispatch_done"
    /\ UNCHANGED <<functions, chatState, steps, retryVars, chatVars, sharedVars>>

\* Variant of DoRejects without the catch: the rejection leaves dispatch.
DoRejectsUncaught(e) ==
    /\ pc = "dispatch_await"
    /\ dispatched' = Rejected(e)
    /\ doOutcome' = DoRejected(e)
    /\ pendingCall' = NoCall
    /\ pc' = "dispatch_done"
    /\ UNCHANGED <<functions, chatState, steps, retryVars, chatVars, sharedVars>>

\* The awaited do() rejects: the catch turns it into FunctionThrew.
DoRejects(e) ==
    /\ pc = "dispatch_await"
    /\ dispatched' = Fulfilled(FunctionThrew(AsError(e)))
    /\ doOutcome' = DoRejected(e)
    /\ pendingCall' = NoCall
    /\ pc' = "dispatch_done"
    /\ UNCHANGED <<functions, chatState, steps, retryVars, chatVars, sharedVars>>

\* The caller takes the result; the registry is ready for the next dispatch.
DispatchSettled ==
    /\ pc = "dispatch_done"
    /\ pc' = "registry"
    /\ chatState' = NoChatState
    /\ steps' = <<>>
    /\ dispatched' = NotCalled
    /\ doOutcome' = NoOutcome
    /\ UNCHANGED <<functions, pendingCall, retryVars, chatVars, sharedVars>>

----------------------------------------------------------------------------
(* formatForGpt and getFunctions. *)

\* The sets of names formatForGpt may be given.
EnabledNameSets == SUBSET (ClassNames \cup {"Unknown"})

\* Variant of formatForGpt that leaves out the functions that are not
\* enabled.
FormatForGptEnabledOnly(fs, enabledFunctionNames) ==
    LET enabled == SelectSeq(fs, LAMBDA func : func.name \in enabledFunctionNames)
    IN  [i \in 1..Len(enabled) |->
            [name |-> enabled[i].name,
             description |-> <<enabled[i].description>>,
             parameters |-> enabled[i].parameters]]

\* this.functions.map(...): one descriptor per function, in order.
FormatForGpt(fs, enabledFunctionNames) ==
    [i \in 1..Len(fs) |->
        [name |-> fs[i].name,
         description |-> IF fs[i].name \in enabledFunctionNames
                         THEN <<fs[i].description>>
                         ELSE <<"DEPRECATED: ", fs[i].description>>,
         parameters |-> fs[i].parameters]]

NotFormatted == [called |-> FALSE, enabledFunctionNames |-> {}, descriptors |-> <<>>]

\* formatForGpt(enabledFunctionNames), a synchronous call.
Format(enabledFunctionNames) ==
    /\ pc = "registry"
    /\ pc' = "format_done"
    /\ formatted' = [called |-> TRUE, enabledFunctionNames |-> enabledFunctionNames,
                     descriptors |-> FormatForGpt(functions, enabledFunctionNames)]
    /\ UNCHANGED <<dispatchVars, retryVars, chatVars, listed, inflight>>

\* The caller takes the descriptors.
FormatSettled ==
    /\ pc = "format_done"
    /\ pc' = "registry"
    /\ formatted' = NotFormatted
    /\ UNCHANGED <<dispatchVars, retryVars, chatVars, listed, inflight>>

NotListed == [held |-> FALSE, alias |-> FALSE, items |-> <<>>]

\* Variant of getFunctions that returns this.functions itself.
GetFunctionsAliased(fs) == [held |-> TRUE, alias |-> TRUE, items |-> fs]

\* [...this.functions]: a new array with the same elements.
GetFunctionsResult(fs) == [held |-> TRUE, alias |-> FALSE, items |-> fs]

\* getFunctions()
GetFunctions ==
    /\ pc = "registry"
    /\ ~listed.held
    /\ listed' = GetFunctionsResult(functions)
    /\ UNCHANGED <<pc, dispatchVars, retryVars, chatVars, formatted, inflight>>

\* What the caller may do to the array it was given.
ListMutations == {"pop", "reverse"}

Reverse(s) == [i \in 1..Len(s) |-> s[Len(s) + 1 - i]]

Mutated(items, how) ==
    IF how = "pop" THEN SubSeq(items, 1, Len(items) - 1) ELSE Reverse(items)

\* The caller changes the array getFunctions returned; an array that is the
\* registry's own changes the registry with it.
MutateListed(how) ==
    /\ listed.held
    /\ Mutated(listed.items, how) # listed.items
    /\ listed' = [listed EXCEPT !.items = Mutated(listed.items, how)]
    /\ functions' = IF listed.alias THEN Mutated(listed.items, how) ELSE functions
    /\ UNCHANGED <<pc, chatState, steps, pendingCall, doOutcome, dispatched,
                   retryVars, chatVars, formatted, inflight>>

----------------------------------------------------------------------------
(* Dispatch calls against one registry, interleaved at the await of do().  *)
(* Each call has its own locals, kept in its record of inflight.           *)

MaxCalls == 2

Callers == 1..MaxCalls

Free ==
    [at |-> "free", chatState |-> NoChatState, steps |-> <<>>,
     pendingCall |-> NoCall, doOutcome |-> NoOutcome, dispatched |-> NotCalled]

\* The registries the interleaved calls run against: functions with a
\* compiled validator, one of them a no-op, and a name registered twice.
FetchWeather ==
    [name |-> "FetchWeather", description |-> DescriptionOf("FetchWeather"),
     parameters |-> SchemaOf("FetchWeather"), isNoOp |-> FALSE,
     ajvValidateFunction |-> "compiled"]

Finish ==
    [name |-> "Finish", description |-> DescriptionOf("Finish"),
     parameters |-> SchemaOf("Finish"), isNoOp |-> TRUE,
     ajvValidateFunction |-> "compiled"]

SharedRegistries ==
    {<<FetchWeather, Finish>>,
     <<Finish, [FetchWeather EXCEPT !.isNoOp = TRUE], FetchWeather>>}

\* The chat histories of the interleaved calls: a call that reaches do(), a
\* no-op, invalid arguments, an unknown name.
SharedHistories ==
    {<<[role |-> "assistant",
        function_call |-> [present |-> TRUE, name |-> n, arguments |-> a]]>> :
        n \in {"FetchWeather", "Finish", "Unknown"},
        a \in {<<"{", "where", "}">>, <<"{", "}">>}}

\* What dispatch returns once the awaited do() has ended.
AfterDo(outcome) ==
    IF outcome.kind = "resolved"
    THEN Fulfilled(FunctionSucceeded(outcome.value))
    ELSE Fulfilled(FunctionThrew(AsError(outcome.error)))

\* Caller c calls dispatch(cs): the call runs to its return or to its await.
CallDispatch(c, cs) ==
    /\ pc = "registry"
    /\ inflight[c].at = "free"
    /\ LET r == DispatchPrefix(functions, cs)
       IN  IF r.promise.state # "pending"
           THEN inflight' = [inflight EXCEPT ![c] =
                    [at |-> "done", chatState |-> cs, steps |-> r.steps,
                     pendingCall |-> NoCall, doOutcome |-> NoOutcome,
                     dispatched |-> r.promise]]
           ELSE \/ inflight' = [inflight EXCEPT ![c] =
                       [at |-> "await", chatState |-> cs, steps |-> r.steps,
                        pendingCall |-> r.call, doOutcome |-> NoOutcome,
                        dispatched |-> Pending]]
                \/ \E e \in Thrown :
                      inflight' = [inflight EXCEPT ![c] =
                          [at |-> "done", chatState |-> cs, steps |-> r.steps,
                           pendingCall |-> NoCall, doOutcome |-> DoThrew(e),
                           dispatched |-> AfterDo(DoThrew(e))]]
    /\ UNCHANGED <<pc, dispatchVars, retryVars, chatVars, formatted, listed>>

\* The do() caller c awaits resolves.
CallDoResolves(c, result) ==
    /\ inflight[c].at = "await"
    /\ inflight' = [inflight EXCEPT ![c].at = "done",
                                    ![c].pendingCall = NoCall,
                                    ![c].doOutcome = DoResolved(result),
                                    ![c].dispatched = AfterDo(DoResolved(result))]
    /\ UNCHANGED <<pc, dispatchVars, retryVars, chatVars, formatted, listed>>

\* The do() caller c awaits rejects.
CallDoRejects(c, e) ==
    /\ inflight[c].at = "await"
    /\ inflight' = [inflight EXCEPT ![c].at = "done",
                                    ![c].pendingCall = NoCall,
                                    ![c].doOutcome = DoRejected(e),
                                    ![c].dispatched = AfterDo(DoRejected(e))]
    /\ UNCHANGED <<pc, dispatchVars, retryVars, chatVars, formatted, listed>>

\* Caller c takes its result and may call again.
CallSettled(c) ==
    /\ inflight[c].at = "done"
    /\ inflight' = [inflight EXCEPT ![c] = Free]
    /\ UNCHANGED <<pc, dispatchVars, retryVars, chatVars, formatted, listed>>

----------------------------------------------------------------------------

(* The specification. *)

Init ==
    /\ pc = "idle"
    /\ functions = <<>>
    /\ chatState = NoChatState
    /\ steps = <<>>
    /\ pendingCall = NoCall
    /\ doOutcome = NoOutcome
    /\ dispatched = NotCalled
    /\ retries = 0
    /\ err = Error(<<>>)
    /\ calls = <<>>
    /\ retried = NotCalled
    /\ chatCall = NoChatCall
    /\ window = NoWindow
    /\ openaiRequest = NoRequest
    /\ providerLog = <<>>
    /\ response = NoResponse
    /\ completion = NotCalled
    /\ formatted = NotFormatted
    /\ listed = NotListed
    /\ inflight = [c \in Callers |-> Free]

Next ==
    \/ \E fs \in SeqsUpTo(GptFunction, MaxFunctions) : Construct(fs)
    \/ \E h \in DispatchHistories : Dispatch([chatHistory |-> h])
    \/ \E result \in ReturnValues : DoResolves(result)
    \/ \E e \in Thrown : DoRejects(e)
    \/ DispatchSettled
    \/ \E enabledFunctionNames \in EnabledNameSets : Format(enabledFunctionNames)
    \/ FormatSettled
    \/ RetryOnOpenAiError
    \/ \E e \in CallErrors : FuncThrows(e)
    \/ \E v \in CallResults : FuncReturns(v)
    \/ FuncReturnsPromise
    \/ \E v \in CallResults : FuncPromiseResolves(v)
    \/ \E e \in CallErrors : FuncPromiseRejects(e)
    \/ GiveUp
    \/ \E call \in ChatCalls : GetChatCompletion(call)
    \/ \E error \in ProviderErrors : ProviderFails(error)
    \/ \E r \in ProviderResponses : ProviderResponds(r)
    \/ \E call \in CompletionCalls : GetCompletionUsingChatModel(call)
    \/ \E error \in ProviderErrors : CompletionProviderFails(error)
    \/ \E r \in ProviderResponses : CompletionProviderResponds(r)

Spec == Init /\ [][Next]_vars

\* One registry used by several callers at once.
NextShared ==
    \/ \E fs \in SharedRegistries : Construct(fs)
    \/ \E enabledFunctionNames \in EnabledNameSets : Format(enabledFunctionNames)
    \/ FormatSettled
    \/ GetFunctions
    \/ \E how \in ListMutations : MutateListed(how)
    \/ \E c \in Callers, h \in SharedHistories : CallDispatch(c, [chatHistory |-> h])
    \/ \E c \in Callers, result \in ReturnValues : CallDoResolves(c, result)
    \/ \E c \in Callers, e \in Thrown : CallDoRejects(c, e)
    \/ \E c \in Callers : CallSettled(c)

SpecShared == Init /\ [][NextShared]_vars

----------------------------------------------------------------------------
(* Properties of dispatch. *)

\* The function_call of the last message of the chat history dispatch was
\* called with.
Requested == chatState.chatHistory[Len(chatState.chatHistory)].function_call

HasRequest == Len(chatState.chatHistory) > 0 /\ Requested.present

Resolved == Find(functions, Requested.name)

ResolvedFunction == functions[Resolved.index]

ParsedArguments == JSONParse(ArgumentsString(Requested))

\* func.validate(args) returned, with nothing or with a complaint.
ValidationPassed ==
    /\ HasRequest /\ Resolved.found /\ ParsedArguments.ok
    /\ Validate(ResolvedFunction, ParsedArguments)
          = [threw |-> FALSE, returned |-> "undefined"]

ValidationFailed ==
    /\ HasRequest /\ Resolved.found /\ ParsedArguments.ok
    /\ Validate(ResolvedFunction, ParsedArguments)
          = [threw |-> FALSE, returned |-> "object"]

DispatchDone == pc = "dispatch_done"

DispatchResultTypes == {"FunctionCallInvalid", "FunctionSucceeded", "FunctionThrew"}

Returned(type) == dispatched.state = "fulfilled" /\ dispatched.value.type = type

\* C1: for every registry and every chat history whose last message is an
\* assistant message requesting a function call, dispatch ends by returning
\* exactly one of FunctionCallInvalid, FunctionSucceeded, FunctionThrew, and
\* never by throwing or rejecting.
C1_DispatchReturnsOneResult ==
    (DispatchDone /\ HasRequest) =>
        /\ dispatched.state = "fulfilled"
        /\ dispatched.value.type \in DispatchResultTypes

\* C7: a call resolved to a function with isNoOp = true never invokes do();
\* when its arguments parse and validate, dispatch returns FunctionSucceeded
\* with result null.
C7_NoOpNeverInvokesBody ==
    (HasRequest /\ Resolved.found /\ ResolvedFunction.isNoOp) =>
        /\ "do" \notin Range(steps)
        /\ doOutcome = NoOutcome
        /\ pc # "dispatch_await"
        /\ (DispatchDone /\ ValidationPassed) =>
              dispatched = Fulfilled(FunctionSucceeded("null"))

C7_Witness ==
    /\ DispatchDone /\ ValidationPassed
    /\ ResolvedFunction.isNoOp
    /\ Returned("FunctionSucceeded")
    /\ "validate" \in Range(steps)

\* C8: once do() has been called, its failure never leaves dispatch: a body
\* that throws, or whose promise rejects, gives FunctionThrew carrying the
\* error (a thrown non-Error value as an Error of its JSON text), and a body
\* that succeeds gives FunctionSucceeded carrying exactly the value returned.
C8_FunctionFailureIsData ==
    (DispatchDone /\ doOutcome.kind # "none") =>
        /\ dispatched.state = "fulfilled"
        /\ doOutcome.kind \in {"threw", "rejected"} =>
              /\ dispatched.value.type = "FunctionThrew"
              /\ dispatched.value.error.isError
              /\ dispatched.value.error.text =
                    IF doOutcome.error.isError THEN doOutcome.error.text
                    ELSE <<"\"">> \o doOutcome.error.text \o <<"\"">>
        /\ doOutcome.kind = "resolved" =>
              dispatched.value = FunctionSucceeded(doOutcome.value)

C8_Witness ==
    /\ DispatchDone
    /\ doOutcome.kind = "rejected"
    /\ ~doOutcome.error.isError
    /\ Returned("FunctionThrew")
    /\ ValidationPassed /\ ~ResolvedFunction.isNoOp

\* C9: arguments that validate() finds invalid give FunctionCallInvalid with
\* an error message naming the function, and do() is not called; arguments
\* that validate() passes never give FunctionCallInvalid.
C9_InvalidArgumentsAreInvalid ==
    /\ ValidationFailed => pc # "dispatch_await"
    /\ (DispatchDone /\ ValidationFailed) =>
          /\ Returned("FunctionCallInvalid")
          /\ Requested.name \in Range(dispatched.value.errorMessage)
          /\ "do" \notin Range(steps)
          /\ doOutcome = NoOutcome
    /\ (DispatchDone /\ ValidationPassed) => ~Returned("FunctionCallInvalid")

C9_Witness ==
    /\ DispatchDone /\ ValidationFailed
    /\ Returned("FunctionCallInvalid")
    /\ "validate" \in Range(steps)

\* C10: a function_call whose arguments are not well-formed JSON gives
\* FunctionCallInvalid; validate() is never called and do() is never called.
C10_MalformedJsonSkipsValidation ==
    (pc \in {"dispatch_await", "dispatch_done"} /\ HasRequest /\ ~ParsedArguments.ok) =>
        /\ DispatchDone
        /\ Returned("FunctionCallInvalid")
        /\ "validate" \notin Range(steps)
        /\ "do" \notin Range(steps)
        /\ doOutcome = NoOutcome

C10_Witness ==
    /\ DispatchDone /\ HasRequest /\ Resolved.found
    /\ ~ParsedArguments.ok
    /\ "parse" \in Range(steps)
    /\ Returned("FunctionCallInvalid")

\* C11: a function_call whose name matches no registered function gives
\* FunctionCallInvalid with an error message naming that function; no body
\* is called, and dispatch never waits for one.
C11_UnknownFunctionIsInvalid ==
    (pc \in {"dispatch_await", "dispatch_done"} /\ HasRequest /\ ~Resolved.found) =>
        /\ DispatchDone
        /\ Returned("FunctionCallInvalid")
        /\ dispatched.value.errorMessage = <<"unknown function ", Requested.name>>
        /\ "do" \notin Range(steps)
        /\ doOutcome = NoOutcome
        /\ pendingCall = NoCall

C11_Witness ==
    /\ DispatchDone /\ HasRequest /\ ~Resolved.found
    /\ Len(functions) > 0
    /\ Returned("FunctionCallInvalid")
    /\ steps = <<"find">>

\* C19, as claimed: arguments that are not well-formed JSON give the
\* parse-failure FunctionCallInvalid whether or not the name is registered.
C19_ParseBeforeLookup ==
    (DispatchDone /\ HasRequest /\ ~ParsedArguments.ok) =>
        /\ Returned("FunctionCallInvalid")
        /\ dispatched.value.errorMessage[1] = "invalid JSON string for arguments: "

\* C19, amended: dispatch looks the name up, parses the arguments, validates
\* them and calls the body, in that order, each step only after the ones
\* before it; malformed arguments under a registered name give the
\* parse-failure FunctionCallInvalid, and under an unregistered name the
\* unknown-function FunctionCallInvalid, with no parse attempted.
C19_LookupParseValidateExecute ==
    /\ \E n \in 0..4 : steps = SubSeq(<<"find", "parse", "validate", "do">>, 1, n)
    /\ (DispatchDone /\ HasRequest /\ ~ParsedArguments.ok) =>
          /\ Returned("FunctionCallInvalid")
          /\ Resolved.found =>
                /\ steps = <<"find", "parse">>
                /\ dispatched.value.errorMessage[1]
                      = "invalid JSON string for arguments: "
          /\ ~Resolved.found =>
                /\ steps = <<"find">>
                /\ dispatched.value.errorMessage[1] = "unknown function "

C19_Witness ==
    /\ DispatchDone /\ HasRequest
    /\ ~ParsedArguments.ok /\ ~Resolved.found
    /\ Len(functions) > 0
    /\ steps = <<"find">>
    /\ Returned("FunctionCallInvalid")

----------------------------------------------------------------------------
(* Properties of retryOnOpenAiError. *)

\* C2: when every call of the wrapped function fails, it is called exactly
\* MAX_RETRIES times and the wrapper then fails with an error whose message
\* holds the retry count and the last error's message.
C2_RetryBound ==
    (/\ pc = "retry_done"
     /\ \A i \in 1..Len(calls) : calls[i] \in {"threw", "rejected"}) =>
        /\ Len(calls) = MAX_RETRIES
        /\ retried.state = "rejected"
        /\ retried.reason.text[2] = ToString(MAX_RETRIES)
        /\ Len(retried.reason.text) > 7
        /\ SubSeq(retried.reason.text, 8, Len(retried.reason.text)) = ErrorMessage(err)

\* C20: every failed call of the wrapped function, whether it throws or
\* returns a promise that rejects, counts toward the retry budget and is
\* followed by another attempt: the wrapper's promise rejects only after
\* MAX_RETRIES failed calls.
C20_EveryFailureIsRetried ==
    /\ \A i \in 1..Len(calls) :
          (calls[i] \in {"threw", "rejected"} /\ i < MAX_RETRIES /\ pc = "retry_done")
              => Len(calls) > i
    /\ retried.state = "rejected" =>
          /\ Len(calls) = MAX_RETRIES
          /\ \A i \in 1..Len(calls) : calls[i] \in {"threw", "rejected"}

\* C21: a wrapped call that fails k times (k < MAX_RETRIES) and then succeeds
\* gives that success after exactly k + 1 attempts: the wrapper ends before
\* its budget is spent only with the success of its last attempt, all
\* attempts before it having failed, and with no error passed on.
C21_SuccessAfterFailures ==
    pc = "retry_done" =>
        LET n == Len(calls)
            failed(i) == calls[i] \in {"threw", "rejected"}
        IN  \/ /\ n = MAX_RETRIES
               /\ \A i \in 1..n : failed(i)
            \/ /\ n \in 1..MAX_RETRIES
               /\ calls[n] \in {"returned", "resolved"}
               /\ \A i \in 1..(n - 1) : failed(i)
               /\ retried.state = "fulfilled"
               /\ retried.value \in CallResults

----------------------------------------------------------------------------
(* Properties of getChatCompletion. *)

\* Budgets the window is also computed for, beside the model's own.
Budgets == {0, 1600, 13600, 25600, 25601, 40000, 80000}

ChatStarted == pc \in {"chat_await", "chat_done"}

History == chatCall.messages

CallBaseChars == BaseChars(chatCall.systemMessageContent, chatCall.functions)

CallMaxChars == FractionOfMaxChars(ApproximateMaxChars(chatCall.model).chars)

\* The serialized size of a sequence of messages.
SerializedSize(ms) == Sum([i \in 1..Len(ms) |-> JSONLength(ms[i])])

StartAt(budget) == SelectWindow(History, CallBaseChars, budget).startingMessageIndex

\* C3, as claimed: the invocation fails on a provider failure only after
\* MAX_RETRIES consecutive failed provider calls.
C3_FailsOnlyAfterMaxRetries ==
    (/\ pc = "chat_done"
     /\ completion.state = "rejected"
     /\ providerLog # <<>>
     /\ providerLog[Len(providerLog)] = "failed") =>
        /\ Len(providerLog) = MAX_RETRIES
        /\ \A i \in 1..Len(providerLog) : providerLog[i] = "failed"

\* C3, amended: one invocation makes at most one provider call and never
\* repeats it; when that call fails the invocation fails at once with an
\* "error calling OpenAI" error that ends in the request sent; a message is
\* returned only when that one call succeeded.
C3_SingleProviderCall ==
    /\ Len(providerLog) <= 1
    /\ (pc = "chat_done" /\ providerLog = <<"failed">>) =>
          /\ completion.state = "rejected"
          /\ completion.reason.text[1] = "error calling OpenAI: "
          /\ LET t == completion.reason.text
                 r == JSONStringifyRequest(openaiRequest)
             IN  /\ Len(t) > Len(r)
                 /\ SubSeq(t, Len(t) - Len(r) + 1, Len(t)) = r
    /\ completion.state = "fulfilled" => providerLog = <<"responded">>

C3_Witness ==
    /\ pc = "chat_done"
    /\ providerLog = <<"failed">>
    /\ completion.state = "rejected"

\* C4: the messages sent are the system message followed by a contiguous
\* suffix of the history, in order; a suffix of more than one message has
\* baseChars plus its serialized size strictly below the budget (for the
\* model's budget and for every budget of Budgets).
C4_WindowIsSuffixWithinBudget ==
    /\ openaiRequest # NoRequest =>
          LET P == openaiRequest.messages
              k == Len(P) - 1
          IN  /\ P[1] = SystemMessage(chatCall.systemMessageContent)
              /\ k <= Len(History)
              /\ \A i \in 1..k : P[i + 1] = History[Len(History) - k + i]
              /\ k > 1 => CallBaseChars + SerializedSize(Tail(P)) < CallMaxChars
    /\ Len(History) > 0 =>
          \A b \in Budgets :
              StartAt(b) < Len(History) =>
                  CallBaseChars
                    + SerializedSize(SubSeq(History, StartAt(b), Len(History))) < b

C4_Witness ==
    /\ pc = "chat_await"
    /\ Len(openaiRequest.messages) - 1 > 1
    /\ Len(openaiRequest.messages) - 1 < Len(History)

\* C5: for a non-empty history the window always holds the most recent
\* message, also when the budget is below that message's size.
C5_WindowKeepsLastMessage ==
    /\ (ChatStarted /\ Len(History) > 0 /\ ApproximateMaxChars(chatCall.model).ok) =>
          /\ Len(openaiRequest.messages) >= 2
          /\ openaiRequest.messages[Len(openaiRequest.messages)]
                = History[Len(History)]
    /\ Len(History) > 0 => \A b \in Budgets : StartAt(b) \in 1..Len(History)

C5_Witness ==
    /\ pc = "chat_await"
    /\ Len(History) > 1
    /\ CallBaseChars < CallMaxChars
    /\ CallBaseChars + JSONLength(History[Len(History)]) >= CallMaxChars
    /\ openaiRequest.messages
          = <<SystemMessage(chatCall.systemMessageContent), History[Len(History)]>>

\* C6: for a fixed history, system message and function list, a larger
\* budget never starts the window later: B1 <= B2 implies the start index at
\* B2 is at most the start index at B1.
C6_BudgetMonotone ==
    Len(History) > 0 =>
        \A b1, b2 \in Budgets : b1 <= b2 => StartAt(b2) <= StartAt(b1)

C6_Witness ==
    /\ pc = "chat_await"
    /\ \E b \in Budgets : b < CallMaxChars /\ StartAt(CallMaxChars) < StartAt(b)
    /\ \E b \in Budgets : b > CallMaxChars /\ StartAt(b) < StartAt(CallMaxChars)
    /\ window.startingMessageIndex = StartAt(CallMaxChars)

\* The models approximateMaxChars has a case for.
KnownModels == {"gpt-4"}

\* The provider call of this invocation resolved (with a response or with
\* nothing).
ProviderResolved == providerLog # <<>> /\ providerLog[Len(providerLog)] = "responded"

\* C12: for a model without a known budget getChatCompletion fails with the
\* unknown-model error naming the model, before any request is built or
\* sent: the invocation makes no provider call.
C12_UnknownModelIsFatal ==
    (ChatStarted /\ chatCall.model \notin KnownModels) =>
        /\ pc = "chat_done"
        /\ completion = Rejected(Error(<<"unknown model: ", chatCall.model>>))
        /\ providerLog = <<>>
        /\ openaiRequest = NoRequest

C12_Witness ==
    /\ pc = "chat_done"
    /\ chatCall.model \notin KnownModels
    /\ Len(chatCall.messages) > 0
    /\ completion.state = "rejected"
    /\ providerLog = <<>>

\* C16: when the provider call resolves without a response object,
\* getChatCompletion fails with the response-validation error after exactly
\* that one provider call, and returns no message.
C16_AbsentResponseIsFatal ==
    (pc = "chat_done" /\ ProviderResolved /\ ~response.present) =>
        /\ completion = Rejected(Error(<<"OpenAI response data validation error">>))
        /\ providerLog = <<"responded">>

C16_Witness ==
    /\ pc = "chat_done"
    /\ providerLog = <<"responded">>
    /\ response.shape = "none"
    /\ completion.state = "rejected"

\* C17: when the provider call resolves with a response, getChatCompletion
\* returns the first choice's role and function_call unchanged, with the
\* response's content when it has one and the empty string when it has none.
C17_ReturnsFirstChoiceMessage ==
    (pc = "chat_done" /\ ProviderResolved /\ response.present) =>
        completion =
            Fulfilled([role |-> response.message.role,
                       content |-> IF response.message.content.present
                                   THEN response.message.content.text ELSE "",
                       function_call |-> response.message.function_call])

\* How an invocation ended, by the error it failed with.
OutcomeClass(promise) ==
    IF promise.state = "fulfilled" THEN "success"
    ELSE IF promise.state # "rejected" THEN "none"
    ELSE IF promise.reason = TypeError THEN "type error"
    ELSE IF promise.reason.text = <<>> THEN "other"
    ELSE LET head == promise.reason.text[1]
         IN  IF head = "unknown model: " THEN "unknown model"
             ELSE IF head = "error calling OpenAI: " THEN "provider failure"
             ELSE IF head = "OpenAI response data validation error"
             THEN "invalid response"
             ELSE "other"

\* The outcome class of getChatCompletion for a call, the fate of its
\* provider call and the response it resolved to.
GetChatCompletionClass(call, log, r) ==
    IF call.model \notin KnownModels THEN "unknown model"
    ELSE IF Len(call.messages) = 0 THEN "type error"
    ELSE IF log = <<"failed">> THEN "provider failure"
    ELSE IF ~r.present THEN "invalid response"
    ELSE IF r.shape # "flat" THEN "type error"
    ELSE "success"

CompletionDone == pc = "completion_done"

\* C15, as claimed: getCompletionUsingChatModel ends in the outcome class
\* getChatCompletion reaches for the same model, provider behaviour and
\* prompt (as a one-message history, without functions).
C15_SameOutcomeClass ==
    CompletionDone =>
        OutcomeClass(completion) = GetChatCompletionClass(chatCall, providerLog, response)

\* C15, amended: getCompletionUsingChatModel sends [system, user prompt] as
\* it is, with no budget lookup, no window and no retry, in exactly one
\* provider call; for a known model it ends in getChatCompletion's outcome
\* class, for an unknown model it calls the provider all the same and never
\* fails with the unknown-model error; on success it returns an assistant
\* message holding only the response's content ("" when absent).
C15_OneUnwindowedCall ==
    /\ pc = "chat_done" =>
          OutcomeClass(completion) = GetChatCompletionClass(chatCall, providerLog, response)
    /\ pc \in {"completion_await", "completion_done"} =>
          /\ Len(providerLog) = 1
          /\ openaiRequest.messages
                = <<SystemMessage(chatCall.systemMessageContent)>> \o chatCall.messages
          /\ openaiRequest.model = chatCall.model
          /\ ~openaiRequest.hasFunctions
    /\ CompletionDone =>
          /\ OutcomeClass(completion) # "unknown model"
          /\ chatCall.model \in KnownModels =>
                OutcomeClass(completion)
                    = GetChatCompletionClass(chatCall, providerLog, response)
          /\ completion.state = "fulfilled" =>
                completion.value =
                    [role |-> "assistant",
                     content |-> IF response.message.content.present
                                 THEN response.message.content.text ELSE ""]

C15_Witness ==
    /\ CompletionDone
    /\ chatCall.model \notin KnownModels
    /\ completion.state = "fulfilled"
    /\ response.message.function_call.present
    /\ BaseChars(chatCall.systemMessageContent, chatCall.functions)
          + JSONLength(chatCall.messages[1]) > FractionOfMaxChars(8000 * 4)

----------------------------------------------------------------------------
(* Properties of the registry. *)

\* The positions of the functions registered under the requested name.
Namesakes == {i \in 1..Len(functions) : functions[i].name = Requested.name}

\* The first of them.
FirstNamesake == CHOOSE i \in Namesakes : \A j \in Namesakes : i <= j

\* C13, as claimed: a name dispatch resolves is the name of exactly one
\* registered function.
C13_NamesAreUnique ==
    (pc \in {"dispatch_await", "dispatch_done"} /\ HasRequest /\ Namesakes # {}) =>
        Cardinality(Namesakes) = 1

\* C13, amended: the registry keeps functions that share a name, and
\* dispatch resolves a name to the first function registered under it: that
\* function's validator, no-op flag and body decide the result.
C13_FirstNamesakeIsDispatched ==
    (pc \in {"dispatch_await", "dispatch_done"} /\ HasRequest /\ Namesakes # {}) =>
        LET func == functions[FirstNamesake]
            passes == /\ ParsedArguments.ok
                      /\ Validate(func, ParsedArguments)
                            = [threw |-> FALSE, returned |-> "undefined"]
        IN  /\ pc = "dispatch_await" => pendingCall.index = FirstNamesake
            /\ (DispatchDone /\ ParsedArguments.ok
                    /\ func.ajvValidateFunction = "undefined") =>
                  dispatched = Rejected(TypeError)
            /\ (DispatchDone /\ passes /\ func.isNoOp) =>
                  /\ dispatched = Fulfilled(FunctionSucceeded("null"))
                  /\ "do" \notin Range(steps)
            /\ (DispatchDone /\ passes /\ ~func.isNoOp) =>
                  /\ "do" \in Range(steps)
                  /\ doOutcome # NoOutcome

C13_Witness ==
    /\ pc = "dispatch_await"
    /\ Cardinality(Namesakes) = 2
    /\ pendingCall.index = 1
    /\ functions[2].isNoOp

\* C18: for any set of enabled names formatForGpt returns one descriptor per
\* registered function, in registry order, with the function's name and
\* parameters; the description is the function's own when its name is
\* enabled, and marked DEPRECATED when it is not.
C18_FormatListsEveryFunction ==
    formatted.called =>
        LET d == formatted.descriptors
            enabled == formatted.enabledFunctionNames
        IN  /\ Len(d) = Len(functions)
            /\ \A i \in 1..Len(functions) :
                  /\ d[i].name = functions[i].name
                  /\ d[i].parameters = functions[i].parameters
                  /\ functions[i].name \in enabled =>
                        d[i].description = <<functions[i].description>>
                  /\ functions[i].name \notin enabled =>
                        /\ d[i].description[1] = "DEPRECATED: "
                        /\ Tail(d[i].description) = <<functions[i].description>>

C18_Witness ==
    /\ pc = "format_done"
    /\ Len(functions) = 2
    /\ functions[1].name \notin formatted.enabledFunctionNames
    /\ functions[2].name \in formatted.enabledFunctionNames
    /\ Len(formatted.descriptors) = 2

\* What dispatch(cs) returns when it runs alone against registry fs and its
\* do() call, if it makes one, ends as outcome.
AloneResult(fs, cs, outcome) ==
    LET r == DispatchPrefix(fs, cs)
    IN  IF r.promise.state # "pending" THEN r.promise ELSE AfterDo(outcome)

CallsReturnAsAlone ==
    \A c \in Callers :
        inflight[c].at = "done" =>
            inflight[c].dispatched
                = AloneResult(functions, inflight[c].chatState, inflight[c].doOutcome)

RegistryKept == pc # "idle" => functions' = functions

\* C14: once constructed, the registry is never changed by dispatch, by
\* formatForGpt, by getFunctions or by changes to the array getFunctions
\* returned, and each of the dispatch calls interleaved at their awaits
\* returns what it returns when run alone.
C14_RegistryReadOnly == []CallsReturnAsAlone /\ [][RegistryKept]_vars

C14_Witness ==
    /\ inflight[1].at = "await"
    /\ inflight[2].at = "done"
    /\ inflight[2].doOutcome.kind = "resolved"
    /\ listed.held
    /\ listed.items # functions
    /\ Len(functions) > 1

\* C22: the window is the longest suffix that fits: totalChars is baseChars
\* plus the serialized size of the selected suffix, and whenever the suffix
\* does not start at the first message, taking in the message just before
\* it would bring the total to maxChars or over (for the model's budget and
\* for every budget of Budgets).
C22_WindowIsLongestSuffix ==
    /\ pc = "chat_await" =>
          LET start == window.startingMessageIndex
          IN  /\ start \in 1..Len(History)
              /\ window.totalChars
                    = CallBaseChars + SerializedSize(SubSeq(History, start, Len(History)))
              /\ Len(openaiRequest.messages) = Len(History) - start + 2
              /\ start > 1 =>
                    window.totalChars + JSONLength(History[start - 1]) >= CallMaxChars
    /\ Len(History) > 0 =>
          \A b \in Budgets :
              StartAt(b) > 1 =>
                  CallBaseChars
                    + SerializedSize(SubSeq(History, StartAt(b) - 1, Len(History))) >= b

C22_Witness ==
    /\ pc = "chat_await"
    /\ Len(History) > 2
    /\ window.startingMessageIndex = Len(History) - 1
    /\ window.totalChars < CallMaxChars
    /\ window.totalChars + JSONLength(History[window.startingMessageIndex - 1])
          >= CallMaxChars

\* C23: called with an empty history, getChatCompletion fails before a
\* request is built or sent and makes no provider call; for a model with a
\* known budget the failure is the TypeError of reading the last message
\* while the window is computed (for any other model the unknown-model
\* error comes first).
C23_EmptyHistoryFailsBeforeRequest ==
    (ChatStarted /\ Len(History) = 0) =>
        /\ pc = "chat_done"
        /\ completion.state = "rejected"
        /\ chatCall.model \in KnownModels => completion = Rejected(TypeError)
        /\ openaiRequest = NoRequest
        /\ window = NoWindow
        /\ providerLog = <<>>
        /\ response = NoResponse

C23_Witness ==
    /\ pc = "chat_done"
    /\ Len(History) = 0
    /\ chatCall.model \in KnownModels
    /\ completion = Rejected(TypeError)
    /\ providerLog = <<>>

====
